-------------------------- MODULE Spec2Model --------------------------
(* The data-cleaning pipeline of                                           *)
(* src/ai-ml/1.Data Cleanup/Datacleanup-practice-advance.py as a state     *)
(* machine: one action per treatment step of the script, executed in the   *)
(* script's order on the table df_clean.                                   *)
(*                                                                         *)
(* Numbers.  The script computes in float64.  The model computes with      *)
(* exact rationals [n |-> numerator, d |-> denominator], d > 0, in lowest  *)
(* terms; d = 0 is NaN (a missing number).  Every comparison with NaN is   *)
(* false, as in IEEE arithmetic.                                           *)
(*                                                                         *)
(* Strings.  Object columns hold strings; NA marks a missing entry         *)
(* (np.nan in an object column).  Python orders strings by code point:     *)
(* Codes gives the code points of the strings that are ordered or parsed.  *)
(*                                                                         *)
(* Inputs.  The script's table is the literal `data` plus three appended   *)
(* rows.  Init also draws tables of at most MaxRows rows from RowPool, so  *)
(* that the steps are exercised on other tables too.  Every drawn table    *)
(* has a parsable age, a city, a purchase amount and a shirt size in some  *)
(* row, as the literal has: the script does not guard an all-missing       *)
(* column (Series.mode()[0] raises on it).                                 *)
EXTENDS Integers, Sequences, FiniteSets

VARIABLES pc, df, df_clean, age_mean, city_mode, purchase_mean, size_mode,
          lower_limit, upper_limit, lower_limit_age, upper_limit_age,
          city_encoded

vars ==
   <<pc, df, df_clean, age_mean, city_mode, purchase_mean, size_mode,
     lower_limit, upper_limit, lower_limit_age, upper_limit_age, city_encoded>>

(* Largest number of rows of a table drawn from RowPool. *)
MaxRows == 4

-----------------------------------------------------------------------
(* Numbers *)

NaN == [n |-> 0, d |-> 0]

NA == "nan"

Abs(x) == IF x < 0 THEN -x ELSE x

RECURSIVE GCD(_, _)
GCD(a, b) == IF b = 0 THEN a ELSE GCD(b, a % b)

Norm(n, d) ==
   LET g == GCD(Abs(n), d) IN [n |-> n \div g, d |-> d \div g]

Int2R(i) == [n |-> i, d |-> 1]

Cents(c) == Norm(c, 100)

isnull(x) == x.d = 0

RAdd(a, b) ==
   IF isnull(a) \/ isnull(b) THEN NaN ELSE Norm(a.n * b.d + b.n * a.d, a.d * b.d)

RSub(a, b) ==
   IF isnull(a) \/ isnull(b) THEN NaN ELSE Norm(a.n * b.d - b.n * a.d, a.d * b.d)

RMul(a, b) ==
   IF isnull(a) \/ isnull(b) THEN NaN ELSE Norm(a.n * b.n, a.d * b.d)

RDivInt(a, k) ==
   IF isnull(a) \/ k = 0 THEN NaN ELSE Norm(a.n, a.d * k)

RLt(a, b) == ~isnull(a) /\ ~isnull(b) /\ a.n * b.d < b.n * a.d

RLe(a, b) == ~isnull(a) /\ ~isnull(b) /\ a.n * b.d <= b.n * a.d

-----------------------------------------------------------------------
(* Strings *)

Codes(s) ==
   CASE s = "Bangalore" -> <<66, 97, 110, 103, 97, 108, 111, 114, 101>>
     [] s = "Chennai" -> <<67, 104, 101, 110, 110, 97, 105>>
     [] s = "Hyderabad" -> <<72, 121, 100, 101, 114, 97, 98, 97, 100>>
     [] s = "Delhi" -> <<68, 101, 108, 104, 105>>
     [] s = "Mumbai" -> <<77, 117, 109, 98, 97, 105>>
     [] s = "Pune" -> <<80, 117, 110, 101>>
     [] s = "Small" -> <<83, 109, 97, 108, 108>>
     [] s = "Medium" -> <<77, 101, 100, 105, 117, 109>>
     [] s = "Large" -> <<76, 97, 114, 103, 101>>
     [] s = "XL" -> <<88, 76>>
     [] s = "Electronics" -> <<69, 108, 101, 99, 116, 114, 111, 110, 105, 99, 115>>
     [] s = "Clothing" -> <<67, 108, 111, 116, 104, 105, 110, 103>>
     [] s = "Furniture" -> <<70, 117, 114, 110, 105, 116, 117, 114, 101>>
     [] s = "A" -> <<65>>
     [] s = "B" -> <<66>>
     [] s = "C" -> <<67>>
     [] s = "twenty-eight" -> <<116, 119, 101, 110, 116, 121, 45, 101, 105, 103, 104, 116>>
     [] s = "unknown" -> <<117, 110, 107, 110, 111, 119, 110>>
     [] s = "25" -> <<50, 53>>
     [] s = "30" -> <<51, 48>>
     [] s = "35" -> <<51, 53>>
     [] s = "40" -> <<52, 48>>
     [] s = "22" -> <<50, 50>>
     [] s = "150" -> <<49, 53, 48>>
     [] s = "28" -> <<50, 56>>
     [] s = "33" -> <<51, 51>>
     [] s = "29" -> <<50, 57>>
     [] s = "31" -> <<51, 49>>
     [] s = "27" -> <<50, 55>>
     [] s = "26" -> <<50, 54>>
     [] s = "32" -> <<51, 50>>
     [] s = "24" -> <<50, 52>>

Min(a, b) == IF a < b THEN a ELSE b

RECURSIVE SeqLess(_, _, _)
SeqLess(a, b, i) ==
   IF i > Len(a) \/ i > Len(b) THEN Len(a) < Len(b)
   ELSE IF a[i] # b[i] THEN a[i] < b[i]
   ELSE SeqLess(a, b, i + 1)

StrLess(s, t) == s # t /\ SeqLess(Codes(s), Codes(t), 1)

IsDigits(c) == Len(c) > 0 /\ \A i \in 1..Len(c) : c[i] \in 48..57

RECURSIVE DigitsValue(_, _)
DigitsValue(c, i) ==
   IF i = 0 THEN 0 ELSE 10 * DigitsValue(c, i - 1) + (c[i] - 48)

(* pd.to_numeric(..., errors='coerce') on one entry of an object column *)
to_numeric(tok) ==
   IF tok = NA THEN NaN
   ELSE IF IsDigits(Codes(tok)) THEN Int2R(DigitsValue(Codes(tok), Len(Codes(tok))))
   ELSE NaN

-----------------------------------------------------------------------
(* Tables: a sequence of rows, each row a record over the table's columns *)

FloatCols == {"age", "purchase_amount"}

StrCols == {"name", "city", "country", "pan_card", "product_category", "shirt_size", "grade"}

(* isnull of the entry v of column c of df_clean *)
IsMissing(c, v) ==
   IF c \in FloatCols THEN isnull(v) ELSE IF c \in StrCols THEN v = NA ELSE FALSE

Column(t, c) == [i \in 1..Len(t) |-> t[i][c]]

(* The entries of s at the positions in keep, in order, from position i on *)
RECURSIVE SelectIdx(_, _, _)
SelectIdx(s, keep, i) ==
   IF i > Len(s) THEN <<>>
   ELSE (IF i \in keep THEN <<s[i]>> ELSE <<>>) \o SelectIdx(s, keep, i + 1)

data ==
   [
      customer_id |-> <<101, 102, 103, 104, 105, 106, 107, 108, 109, 110, 111, 112, 113, 114,
            115, 116, 117, 118, 119, 120>>,
      name |-> <<"John", "Sarah", "Mike", "Emma", "John", "Sarah", "Mike", "David",
            "Lisa", "Tom", "Jerry", "Kate", "Bob", "Alice", "Charlie", "Diana",
            "Eve", "Frank", "Grace", "Henry">>,
      age |-> <<"25", "30", "twenty-eight", "35", "25", "30", "twenty-eight", "40",
            "22", "150", "28", "33", NA, "29", "31", "27", "26", NA, "32", "24">>,
      city |-> <<"Bangalore", "Chennai", "Hyderabad", "Delhi", "Bangalore", "Chennai",
            "Hyderabad", "Mumbai", "Pune", "Bangalore", "Chennai", "Hyderabad",
            "Delhi", NA, "Mumbai", "Bangalore", NA, "Chennai", "Pune", "Delhi">>,
      purchase_amount |-> <<Cents(120050), Cents(80030), NaN, Cents(150000), Cents(120050),
            Cents(80030), NaN, Cents(220000), Cents(95000), Cents(5000000),
            Cents(110000), NaN, Cents(130000), Cents(145000), Cents(180000),
            Cents(125000), NaN, Cents(98000), Cents(115000), Cents(4500000)>>,
      country |-> <<"India", "India", "India", "India", "India", "India", "India",
            "India", "India", "India", "India", "India", "India", "India",
            "India", "India", "India", "India", "India", "India">>,
      pan_card |-> <<"ABCDE1234F", "FGHIJ5678K", "KLMNO9012P", "QRSTU3456V", "WXYZA7890B",
            "CDEFG2345H", "IJKLM6789N", "OPQRS0123T", "UVWXY4567Z", "ABCDF8901E",
            "GHIJK2345L", "MNOPQ6789R", "STUVW0123X", "YZABC4567D", "DEFGH8901J",
            "IJKLM2345P", "NOPQR6789V", "STUVW0123B", "XYZAB4567H", "CDEFG8901N">>,
      product_category |-> <<"Electronics", "Clothing", "Electronics", "Furniture", "Electronics",
            "Clothing", "Electronics", "Furniture", "Clothing", "Electronics",
            "Clothing", "Furniture", "Electronics", "Clothing", "Furniture",
            "Electronics", "Clothing", "Electronics", "Furniture", "Electronics">>,
      shirt_size |-> <<"Small", "Medium", NA, "Large", "Small", "Medium", NA, "XL", "Small",
            "Medium", "Large", "XL", "Small", NA, "Large", "Medium", "Small",
            "XL", "Medium", "Large">>,
      grade |-> <<"A", "B", "A", "C", "B", "A", "B", "A", "C", "B", "A", "C", "B", "A",
            "C", "B", "A", "B", "C", "A">>
   ]

(* df = pd.DataFrame(data); df = pd.concat([df, df.iloc[[4, 5, 6]]]) *)
DataFrame(d) ==
   [i \in 1..Len(d.customer_id) |-> [c \in DOMAIN d |-> d[c][i]]]

ExampleDf ==
   LET base == DataFrame(data) IN base \o <<base[5], base[6], base[7]>>

RowPool ==
   { [customer_id |-> 1, name |-> "John", age |-> "25", city |-> "Pune",
      purchase_amount |-> Cents(10000), country |-> "India", pan_card |-> "P1",
      product_category |-> "Electronics", shirt_size |-> "Small", grade |-> "A"],
     [customer_id |-> 2, name |-> "Sarah", age |-> "twenty-eight", city |-> "Delhi",
      purchase_amount |-> Cents(100000), country |-> "India", pan_card |-> "P2",
      product_category |-> "Clothing", shirt_size |-> "Medium", grade |-> "B"],
     [customer_id |-> 3, name |-> "Mike", age |-> NA, city |-> NA,
      purchase_amount |-> Cents(100000), country |-> "India", pan_card |-> "P3",
      product_category |-> "Furniture", shirt_size |-> NA, grade |-> "C"],
     [customer_id |-> 4, name |-> "Emma", age |-> "150", city |-> "Delhi",
      purchase_amount |-> NaN, country |-> "India", pan_card |-> "P4",
      product_category |-> "Clothing", shirt_size |-> "Medium", grade |-> "A"],
     [customer_id |-> 5, name |-> "John", age |-> "unknown", city |-> "Pune",
      purchase_amount |-> Cents(100000), country |-> "India", pan_card |-> "P5",
      product_category |-> "Electronics", shirt_size |-> "XL", grade |-> "B"],
     [customer_id |-> 5, name |-> "John", age |-> "28", city |-> "Pune",
      purchase_amount |-> Cents(100000), country |-> "India", pan_card |-> "P5",
      product_category |-> "Electronics", shirt_size |-> "XL", grade |-> "B"] }

HasValue(t, c) ==
   \E i \in 1..Len(t) :
      IF c = "age" THEN ~isnull(to_numeric(t[i][c])) ELSE ~IsMissing(c, t[i][c])

InputTables ==
   {ExampleDf} \cup
   { t \in UNION { [1..n -> RowPool] : n \in 1..MaxRows } :
        \A c \in {"age", "city", "purchase_amount", "shirt_size"} : HasValue(t, c) }

-----------------------------------------------------------------------
(* The library calls the script makes, as operators on tables *)

(* df[c] = values *)
SetColumn(t, c, values) == [i \in 1..Len(t) |-> [t[i] EXCEPT ![c] = values[i]]]

(* Series.replace('twenty-eight', '28') on one entry *)
replace(v) == IF v = "twenty-eight" THEN "28" ELSE v

(* SameEntry with a missing entry equal to nothing, itself included *)
SameEntryMissingDiffers(c, a, b) == ~IsMissing(c, a) /\ ~IsMissing(c, b) /\ a = b

(* Two entries of column c are the same value for DataFrame.duplicated: *)
(* missing entries are the same value.                                   *)
SameEntry(c, a, b) ==
   \/ IsMissing(c, a) /\ IsMissing(c, b)
   \/ ~IsMissing(c, a) /\ ~IsMissing(c, b) /\ a = b

SameRow(r1, r2) == \A c \in DOMAIN r1 : SameEntry(c, r1[c], r2[c])

(* DataFrame.duplicated(keep='first') at row i *)
duplicated(t, i) == \E j \in 1..(i - 1) : SameRow(t[j], t[i])

drop_duplicates(t) == SelectIdx(t, {i \in 1..Len(t) : ~duplicated(t, i)}, 1)

(* Series.dropna() of column c, as a sequence *)
dropna(t, c) == SelectIdx(Column(t, c), {i \in 1..Len(t) : ~IsMissing(c, t[i][c])}, 1)

RECURSIVE RSum(_, _)
RSum(s, i) == IF i = 0 THEN Int2R(0) ELSE RAdd(RSum(s, i - 1), s[i])

(* mean with the sum divided by the number of rows, missing ones included *)
meanOverAllRows(t, c) ==
   LET s == dropna(t, c) IN RDivInt(RSum(s, Len(s)), Len(t))

(* Series.mean(): the missing entries are skipped; NaN when none is left *)
mean(t, c) ==
   LET s == dropna(t, c) IN RDivInt(RSum(s, Len(s)), Len(s))

Count(s, v) == Cardinality({i \in 1..Len(s) : s[i] = v})

(* Series.mode(): the most frequent non-missing values, sorted ascending *)
ModeSet(t, c) ==
   LET s == dropna(t, c)
   IN {s[i] : i \in {i \in 1..Len(s) : \A j \in 1..Len(s) : Count(s, s[j]) <= Count(s, s[i])}}

StrMin(S) == CHOOSE v \in S : \A w \in S : ~StrLess(w, v)

(* mode()[0] as the tied value met first in row order *)
mode0FirstMet(t, c) ==
   LET s == dropna(t, c)
   IN s[CHOOSE i \in 1..Len(s) :
           /\ s[i] \in ModeSet(t, c)
           /\ \A j \in 1..(i - 1) : s[j] \notin ModeSet(t, c)]

(* Series.mode()[0] *)
mode0(t, c) == StrMin(ModeSet(t, c))

(* fillna as dropna: the rows with a missing entry are removed *)
fillnaDropsRows(t, c, value) == SelectIdx(t, {i \in 1..Len(t) : ~IsMissing(c, t[i][c])}, 1)

(* Series.fillna(value) *)
fillna(t, c, value) ==
   SetColumn(t, c, [i \in 1..Len(t) |-> IF IsMissing(c, t[i][c]) THEN value ELSE t[i][c]])

(* DataFrame.drop(columns=...) *)
drop(t, columns) == [i \in 1..Len(t) |-> [c \in (DOMAIN t[i]) \ columns |-> t[i][c]]]

(* Series.nunique(): the number of distinct non-missing values *)
nunique(t, c) == Cardinality({t[i][c] : i \in {i \in 1..Len(t) : ~IsMissing(c, t[i][c])}})

CountLt(s, v) == Cardinality({i \in 1..Len(s) : RLt(s[i], v)})

CountLe(s, v) == Cardinality({i \in 1..Len(s) : RLe(s[i], v)})

(* The entry at 0-based position k of s sorted ascending *)
OrderStat(s, k) ==
   s[CHOOSE i \in 1..Len(s) : CountLt(s, s[i]) <= k /\ k < CountLe(s, s[i])]

(* quantile always taken of purchase_amount, whatever the column asked for *)
quantileOfPurchase(t, c, qn, qd) ==
   LET s == dropna(t, "purchase_amount")
       n == Len(s)
       k == (qn * (n - 1)) \div qd
       frac == Norm((qn * (n - 1)) % qd, qd)
       lo == OrderStat(s, k)
       hi == OrderStat(s, Min(k + 1, n - 1))
   IN IF n = 0 THEN NaN ELSE RAdd(lo, RMul(RSub(hi, lo), frac))

(* Series.quantile(qn/qd), interpolation='linear': the missing entries are *)
(* skipped; position qn/qd * (n - 1) in the sorted values, interpolated     *)
(* between its two neighbours.                                              *)
quantile(t, c, qn, qd) ==
   LET s == dropna(t, c)
       n == Len(s)
       k == (qn * (n - 1)) \div qd
       frac == Norm((qn * (n - 1)) % qd, qd)
       lo == OrderStat(s, k)
       hi == OrderStat(s, Min(k + 1, n - 1))
   IN IF n = 0 THEN NaN ELSE RAdd(lo, RMul(RSub(hi, lo), frac))

OneAndHalf == Norm(3, 2)

(* Q1 - (1.5 * IQR) *)
LowerLimit(t, c) ==
   LET q1 == quantile(t, c, 1, 4)
       q3 == quantile(t, c, 3, 4)
   IN RSub(q1, RMul(OneAndHalf, RSub(q3, q1)))

(* UpperLimit with the sign slipped: Q3 - (1.5 * IQR) *)
UpperLimitMinus(t, c) ==
   LET q1 == quantile(t, c, 1, 4)
       q3 == quantile(t, c, 3, 4)
   IN RSub(q3, RMul(OneAndHalf, RSub(q3, q1)))

(* Q3 + (1.5 * IQR) *)
UpperLimit(t, c) ==
   LET q1 == quantile(t, c, 1, 4)
       q3 == quantile(t, c, 3, 4)
   IN RAdd(q3, RMul(OneAndHalf, RSub(q3, q1)))

(* cap without its lower branch *)
capUpperOnly(x, lower, upper) == IF RLt(upper, x) THEN upper ELSE x

(* lambda x: lower if x < lower else (upper if x > upper else x) *)
cap(x, lower, upper) ==
   IF RLt(x, lower) THEN lower ELSE IF RLt(upper, x) THEN upper ELSE x

(* CapColumn as removal: the rows outside the limits are dropped *)
CapColumnRemoves(t, c, lower, upper) ==
   SelectIdx(t, {i \in 1..Len(t) : ~RLt(t[i][c], lower) /\ ~RLt(upper, t[i][c])}, 1)

CapColumn(t, c, lower, upper) ==
   SetColumn(t, c, [i \in 1..Len(t) |-> cap(t[i][c], lower, upper)])

(* The values of column c in ascending order of their strings *)
Rank(S, v) == Cardinality({w \in S : StrLess(w, v)})

Categories(t, c) == {t[i][c] : i \in {i \in 1..Len(t) : ~IsMissing(c, t[i][c])}}

(* pd.get_dummies(column, prefix=..., drop_first=True, dtype=int) *)
get_dummies(t, c) ==
   LET cats == Categories(t, c)
       kept == {v \in cats : Rank(cats, v) > 0}
   IN [i \in 1..Len(t) |-> [v \in kept |-> IF t[i][c] = v THEN 1 ELSE 0]]

(* OrdinalEncoder(categories=[order]).fit_transform: the 0-based position *)
IndexOf(order, v) == (CHOOSE k \in 1..Len(order) : order[k] = v) - 1

size_order == <<"Small", "Medium", "Large", "XL">>

grade_order == <<"C", "B", "A">>

(* df[c] = values, c a new column *)
AddColumn(t, c, values) ==
   [i \in 1..Len(t) |->
      [k \in (DOMAIN t[i]) \cup {c} |-> IF k = c THEN values[i] ELSE t[i][k]]]

columns_to_drop == {"country", "pan_card"}

-----------------------------------------------------------------------
(* The script, step by step *)

Init ==
   /\ pc = "type"
   /\ df \in InputTables
   /\ df_clean = <<>>
   /\ age_mean = NaN
   /\ city_mode = NA
   /\ purchase_mean = NaN
   /\ size_mode = NA
   /\ lower_limit = NaN
   /\ upper_limit = NaN
   /\ lower_limit_age = NaN
   /\ upper_limit_age = NaN
   /\ city_encoded = <<>>

(* PROBLEM 1: df_clean = df.copy(); replace; to_numeric *)
TypeNormalize ==
   /\ pc = "type"
   /\ df_clean' = SetColumn(df, "age", [i \in 1..Len(df) |-> to_numeric(replace(df[i].age))])
   /\ pc' = "duplicates"
   /\ UNCHANGED <<df, age_mean, city_mode, purchase_mean, size_mode, lower_limit,
                  upper_limit, lower_limit_age, upper_limit_age, city_encoded>>

(* PROBLEM 2: df_clean = df_clean.drop_duplicates() *)
DropDuplicates ==
   /\ pc = "duplicates"
   /\ df_clean' = drop_duplicates(df_clean)
   /\ pc' = "fill_age"
   /\ UNCHANGED <<df, age_mean, city_mode, purchase_mean, size_mode, lower_limit,
                  upper_limit, lower_limit_age, upper_limit_age, city_encoded>>

(* PROBLEM 3, age *)
FillAge ==
   /\ pc = "fill_age"
   /\ age_mean' = mean(df_clean, "age")
   /\ df_clean' = fillna(df_clean, "age", age_mean')
   /\ pc' = "fill_city"
   /\ UNCHANGED <<df, city_mode, purchase_mean, size_mode, lower_limit,
                  upper_limit, lower_limit_age, upper_limit_age, city_encoded>>

(* PROBLEM 3, city *)
FillCity ==
   /\ pc = "fill_city"
   /\ city_mode' = mode0(df_clean, "city")
   /\ df_clean' = fillna(df_clean, "city", city_mode')
   /\ pc' = "fill_purchase"
   /\ UNCHANGED <<df, age_mean, purchase_mean, size_mode, lower_limit,
                  upper_limit, lower_limit_age, upper_limit_age, city_encoded>>

(* PROBLEM 3, purchase_amount *)
FillPurchase ==
   /\ pc = "fill_purchase"
   /\ purchase_mean' = mean(df_clean, "purchase_amount")
   /\ df_clean' = fillna(df_clean, "purchase_amount", purchase_mean')
   /\ pc' = "fill_size"
   /\ UNCHANGED <<df, age_mean, city_mode, size_mode, lower_limit,
                  upper_limit, lower_limit_age, upper_limit_age, city_encoded>>

(* PROBLEM 3, shirt_size *)
FillSize ==
   /\ pc = "fill_size"
   /\ size_mode' = mode0(df_clean, "shirt_size")
   /\ df_clean' = fillna(df_clean, "shirt_size", size_mode')
   /\ pc' = "drop_columns"
   /\ UNCHANGED <<df, age_mean, city_mode, purchase_mean, lower_limit,
                  upper_limit, lower_limit_age, upper_limit_age, city_encoded>>

(* PROBLEM 4: df_clean = df_clean.drop(columns=columns_to_drop) *)
DropColumns ==
   /\ pc = "drop_columns"
   /\ df_clean' = drop(df_clean, columns_to_drop)
   /\ pc' = "cap_purchase"
   /\ UNCHANGED <<df, age_mean, city_mode, purchase_mean, size_mode, lower_limit,
                  upper_limit, lower_limit_age, upper_limit_age, city_encoded>>

(* PROBLEM 5: the limits of purchase_amount, then the capping *)
CapPurchase ==
   /\ pc = "cap_purchase"
   /\ lower_limit' = LowerLimit(df_clean, "purchase_amount")
   /\ upper_limit' = UpperLimit(df_clean, "purchase_amount")
   /\ df_clean' = CapColumn(df_clean, "purchase_amount", lower_limit', upper_limit')
   /\ pc' = "cap_age"
   /\ UNCHANGED <<df, age_mean, city_mode, purchase_mean, size_mode,
                  lower_limit_age, upper_limit_age, city_encoded>>

(* PROBLEM 6: the limits of age, then the capping *)
CapAge ==
   /\ pc = "cap_age"
   /\ lower_limit_age' = LowerLimit(df_clean, "age")
   /\ upper_limit_age' = UpperLimit(df_clean, "age")
   /\ df_clean' = CapColumn(df_clean, "age", lower_limit_age', upper_limit_age')
   /\ pc' = "encode_city"
   /\ UNCHANGED <<df, age_mean, city_mode, purchase_mean, size_mode,
                  lower_limit, upper_limit, city_encoded>>

(* BONUS 1: city_encoded = pd.get_dummies(df_clean['city'], ...) *)
EncodeCity ==
   /\ pc = "encode_city"
   /\ city_encoded' = get_dummies(df_clean, "city")
   /\ pc' = "encode_size"
   /\ UNCHANGED <<df, df_clean, age_mean, city_mode, purchase_mean, size_mode,
                  lower_limit, upper_limit, lower_limit_age, upper_limit_age>>

(* BONUS 2: df_clean['size_encoded'] *)
EncodeSize ==
   /\ pc = "encode_size"
   /\ df_clean' = AddColumn(df_clean, "size_encoded",
         [i \in 1..Len(df_clean) |-> IndexOf(size_order, df_clean[i].shirt_size)])
   /\ pc' = "encode_grade"
   /\ UNCHANGED <<df, age_mean, city_mode, purchase_mean, size_mode, lower_limit,
                  upper_limit, lower_limit_age, upper_limit_age, city_encoded>>

(* BONUS 3: df_clean['grade_encoded'] *)
EncodeGrade ==
   /\ pc = "encode_grade"
   /\ df_clean' = AddColumn(df_clean, "grade_encoded",
         [i \in 1..Len(df_clean) |-> IndexOf(grade_order, df_clean[i].grade)])
   /\ pc' = "encode_category"
   /\ UNCHANGED <<df, age_mean, city_mode, purchase_mean, size_mode, lower_limit,
                  upper_limit, lower_limit_age, upper_limit_age, city_encoded>>

(* BONUS 4: df_clean['category_encoded'] = LabelEncoder().fit_transform(...) *)
EncodeCategory ==
   /\ pc = "encode_category"
   /\ df_clean' = AddColumn(df_clean, "category_encoded",
         [i \in 1..Len(df_clean) |->
            Rank(Categories(df_clean, "product_category"), df_clean[i].product_category)])
   /\ pc' = "done"
   /\ UNCHANGED <<df, age_mean, city_mode, purchase_mean, size_mode, lower_limit,
                  upper_limit, lower_limit_age, upper_limit_age, city_encoded>>

Next ==
   \/ TypeNormalize
   \/ DropDuplicates
   \/ FillAge
   \/ FillCity
   \/ FillPurchase
   \/ FillSize
   \/ DropColumns
   \/ CapPurchase
   \/ CapAge
   \/ EncodeCity
   \/ EncodeSize
   \/ EncodeGrade
   \/ EncodeCategory

Spec == Init /\ [][Next]_vars

-----------------------------------------------------------------------
(* Vocabulary of the properties *)

Treated == {"age", "city", "purchase_amount", "shirt_size"}

Rows(t) == 1..Len(t)

IsExample == df = ExampleDf

R(n, d) == Norm(n, d)

(* x rounded to two decimals, as the script prints it with :.2f *)
Round2(x) == Norm((200 * x.n + x.d) \div (2 * x.d), 100)

RAbs(x) == [n |-> Abs(x.n), d |-> x.d]

Within(x, y, tol) == RLe(RAbs(RSub(x, y)), tol)

(* Every column but c is the same in old and new, row by row *)
OthersKept(old, new, c) ==
   /\ Len(new) = Len(old)
   /\ \A i \in Rows(old) :
         /\ DOMAIN new[i] = DOMAIN old[i]
         /\ \A k \in (DOMAIN old[i]) \ {c} : new[i][k] = old[i][k]

NoMissing(t) == \A i \in Rows(t) : \A c \in Treated : ~IsMissing(c, t[i][c])

(* No two rows of t are equal in every field *)
NoEqualRows(t) == \A i, j \in Rows(t) : t[i] = t[j] => i = j

-----------------------------------------------------------------------
(* C2: duplicate elimination *)

(* The rows of t that no earlier row equals in every field.  A missing  *)
(* entry is the marker NaN or NA, so plain equality counts missing      *)
(* equal to missing.                                                     *)
FirstOccurrences(t) == {i \in Rows(t) : \A j \in 1..(i - 1) : t[j] # t[i]}

Nth(S, k) == CHOOSE i \in S : Cardinality({j \in S : j <= i}) = k

DuplicateGroups(t) == {{j \in Rows(t) : t[j] = t[i]} : i \in Rows(t)}

RECURSIVE SumExtra(_)
SumExtra(G) ==
   IF G = {} THEN 0
   ELSE LET g == CHOOSE g \in G : TRUE IN (Cardinality(g) - 1) + SumExtra(G \ {g})

C2Step ==
   pc = "duplicates" =>
      LET old == df_clean
          new == df_clean'
          first == FirstOccurrences(old)
      IN /\ Len(new) = Cardinality(first)
         /\ \A k \in Rows(new) : new[k] = old[Nth(first, k)]
         /\ Len(new) = Len(old) - SumExtra(DuplicateGroups(old))
         /\ IsExample =>
               /\ Len(old) = 23
               /\ Len(new) = 20
               /\ new = SubSeq(old, 1, 20)
               /\ \E i \in 21..23 :
                     /\ isnull(old[i].purchase_amount)
                     /\ old[i].shirt_size = NA

(* C2: the duplicate-elimination step keeps, in the original order,     *)
(* exactly the first row of every group of rows that are equal in every *)
(* field (missing equal to missing), so the row count drops by the sum  *)
(* over the groups of (occurrences - 1); the script's table goes from   *)
(* 23 rows to its first 20.                                              *)
C2_DropDuplicatesKeepsFirst == [][C2Step]_vars

(* The script's table right after duplicate elimination *)
C2_Witness == pc = "fill_age" /\ IsExample /\ Len(df) = 23 /\ Len(df_clean) = 20

-----------------------------------------------------------------------
(* C1: imputation *)

Present(t, c) == {i \in Rows(t) : ~IsMissing(c, t[i][c])}

RECURSIVE SumOver(_, _, _)
SumOver(t, c, S) ==
   IF S = {} THEN Int2R(0)
   ELSE LET i == CHOOSE i \in S : TRUE IN RAdd(t[i][c], SumOver(t, c, S \ {i}))

(* m is the arithmetic mean of the non-missing entries of column c of t *)
IsMeanOf(m, t, c) ==
   /\ Present(t, c) # {}
   /\ ~isnull(m)
   /\ RMul(m, Int2R(Cardinality(Present(t, c)))) = SumOver(t, c, Present(t, c))

Occurrences(t, c, v) == Cardinality({i \in Present(t, c) : t[i][c] = v})

(* m is a most frequent non-missing entry of column c of t *)
IsMostFrequent(m, t, c) ==
   /\ \E i \in Present(t, c) : t[i][c] = m
   /\ \A i \in Present(t, c) : Occurrences(t, c, t[i][c]) <= Occurrences(t, c, m)

(* new is old with every missing entry of c set to the scalar m *)
FilledWith(old, new, c, m) ==
   /\ OthersKept(old, new, c)
   /\ \A i \in Rows(old) :
         new[i][c] = IF i \in Present(old, c) THEN old[i][c] ELSE m

C1Step ==
   /\ pc = "fill_age" =>
         /\ IsMeanOf(age_mean', df_clean, "age")
         /\ FilledWith(df_clean, df_clean', "age", age_mean')
         /\ IsExample =>
               /\ Len(df_clean) = 20
               /\ \E i \in Rows(df_clean) : df_clean[i].age = Int2R(150)
   /\ pc = "fill_city" =>
         /\ IsMostFrequent(city_mode', df_clean, "city")
         /\ FilledWith(df_clean, df_clean', "city", city_mode')
   /\ pc = "fill_purchase" =>
         /\ IsMeanOf(purchase_mean', df_clean, "purchase_amount")
         /\ FilledWith(df_clean, df_clean', "purchase_amount", purchase_mean')
         /\ IsExample =>
               /\ Len(df_clean) = 20
               /\ \E i \in Rows(df_clean) : df_clean[i].purchase_amount = Int2R(45000)
               /\ \E i \in Rows(df_clean) : df_clean[i].purchase_amount = Int2R(50000)
   /\ pc = "fill_size" =>
         /\ IsMostFrequent(size_mode', df_clean, "shirt_size")
         /\ FilledWith(df_clean, df_clean', "shirt_size", size_mode')
   /\ pc' = "drop_columns" => NoMissing(df_clean')

(* C1: each imputation step leaves every non-missing entry and every    *)
(* other column as it was and sets every missing entry of its column to *)
(* one scalar: the mean of the column's non-missing entries in the      *)
(* de-duplicated, not yet capped table (age, purchase_amount), or a     *)
(* most frequent non-missing entry (city, shirt_size); after the four   *)
(* steps no treated column has a missing entry.                          *)
C1_ImputationFillsWithMeanOrMode == [][C1Step]_vars

(* The script's table after the four imputation steps: the rows whose   *)
(* age, city, purchase_amount and shirt_size were missing hold the       *)
(* scalars.                                                              *)
C1_Witness ==
   /\ pc = "drop_columns"
   /\ IsExample
   /\ df[13].age = NA /\ df_clean[13].age = age_mean
   /\ df[14].city = NA /\ df_clean[14].city = city_mode
   /\ isnull(df[3].purchase_amount) /\ df_clean[3].purchase_amount = purchase_mean
   /\ df[3].shirt_size = NA /\ df_clean[3].shirt_size = size_mode

-----------------------------------------------------------------------
(* C3: outlier capping *)

(* new is old with column c capped at lo and hi, the 1.5 IQR limits of *)
(* the column as it stands in old                                        *)
Capped(old, new, c, lo, hi) ==
   LET q1 == quantile(old, c, 1, 4)
       q3 == quantile(old, c, 3, 4)
       iqr == RSub(q3, q1)
   IN /\ lo = RSub(q1, RMul(R(3, 2), iqr))
      /\ hi = RAdd(q3, RMul(R(3, 2), iqr))
      /\ OthersKept(old, new, c)
      /\ \A i \in Rows(old) :
            LET v == old[i][c]
                w == new[i][c]
            IN /\ RLe(lo, w) /\ RLe(w, hi)
               /\ RLt(v, lo) => w = lo
               /\ RLt(hi, v) => w = hi
               /\ (RLe(lo, v) /\ RLe(v, hi)) => w = v

C3Step ==
   /\ pc = "cap_purchase" =>
         Capped(df_clean, df_clean', "purchase_amount", lower_limit', upper_limit')
   /\ pc = "cap_age" =>
         Capped(df_clean, df_clean', "age", lower_limit_age', upper_limit_age')

(* C3: each capping step (purchase_amount, then age) computes its two   *)
(* limits from the quartiles of the column as it stands right before    *)
(* the step; after it every value of the column lies between the        *)
(* limits, a value that was below the lower limit equals it, a value    *)
(* that was above the upper limit equals it, a value inside is          *)
(* unchanged, and no row is removed.                                     *)
C3_CappingClampsToLimits == [][C3Step]_vars

(* The script's table after both cappings: customer 110 (row 10) had    *)
(* purchase_amount 50000 and age 150, and holds the two upper limits.    *)
C3_Witness ==
   /\ pc = "encode_city"
   /\ IsExample
   /\ df[10].purchase_amount = Int2R(50000)
   /\ df[10].age = "150"
   /\ df_clean[10].purchase_amount = upper_limit
   /\ df_clean[10].age = upper_limit_age

-----------------------------------------------------------------------
(* C4: idempotence of the capper *)

(* One application of the capper to column c: the limits are computed   *)
(* from the table's current values, then the column is clamped.          *)
Capper(t, c) == CapColumn(t, c, LowerLimit(t, c), UpperLimit(t, c))

(* C4 as claimed: right after a capping step, applying the capper to    *)
(* the same column again, with the quartiles and limits recomputed from *)
(* the capped values, changes no value.                                  *)
C4_CapperIdempotent ==
   /\ pc = "cap_age" => Capper(df_clean, "purchase_amount") = df_clean
   /\ pc = "encode_city" => Capper(df_clean, "age") = df_clean

SameLimits(t, c, lo, hi) == LowerLimit(t, c) = lo /\ UpperLimit(t, c) = hi

(* C4 as amended: a second application changes no value whenever the    *)
(* limits recomputed from the capped values equal the limits of the     *)
(* first application, and on the script's table they do, for            *)
(* purchase_amount and for age.                                          *)
C4_CapperIdempotentWhenLimitsStay ==
   /\ pc = "cap_age" =>
         /\ SameLimits(df_clean, "purchase_amount", lower_limit, upper_limit)
               => Capper(df_clean, "purchase_amount") = df_clean
         /\ IsExample => SameLimits(df_clean, "purchase_amount", lower_limit, upper_limit)
   /\ pc = "encode_city" =>
         /\ SameLimits(df_clean, "age", lower_limit_age, upper_limit_age)
               => Capper(df_clean, "age") = df_clean
         /\ IsExample => SameLimits(df_clean, "age", lower_limit_age, upper_limit_age)

(* The script's table after the age capping, which changed the age 150  *)
(* of row 10; the recomputed limits are the limits of the step.          *)
C4_Witness ==
   /\ pc = "encode_city"
   /\ IsExample
   /\ df_clean[10].age = upper_limit_age
   /\ df_clean[10].age # Int2R(150)
   /\ SameLimits(df_clean, "age", lower_limit_age, upper_limit_age)

-----------------------------------------------------------------------
(* C5: column pruning *)

(* C5 as claimed: right after the column-pruning step every column of   *)
(* the table has more than one distinct value and fewer distinct values *)
(* than the table has rows.                                              *)
C5_KeptColumnsVary ==
   pc = "cap_purchase" =>
      \A c \in DOMAIN df_clean[1] :
         1 < nunique(df_clean, c) /\ nunique(df_clean, c) < Len(df_clean)

-----------------------------------------------------------------------
(* C6: the tie-break of the mode *)

Tied(t, c, m) == {i \in Present(t, c) : Occurrences(t, c, t[i][c]) = Occurrences(t, c, m)}

IsFirstMetTied(m, t, c) ==
   /\ IsMostFrequent(m, t, c)
   /\ \A i \in Tied(t, c, m) : \E j \in 1..i : j \in Present(t, c) /\ t[j][c] = m

IsSmallestTied(m, t, c) ==
   /\ IsMostFrequent(m, t, c)
   /\ \A i \in Tied(t, c, m) : t[i][c] = m \/ StrLess(m, t[i][c])

C6StepFirstMet ==
   /\ pc = "fill_city" => IsFirstMetTied(city_mode', df_clean, "city")
   /\ pc = "fill_size" => IsFirstMetTied(size_mode', df_clean, "shirt_size")

C6StepSmallest ==
   /\ pc = "fill_city" => IsSmallestTied(city_mode', df_clean, "city")
   /\ pc = "fill_size" => IsSmallestTied(size_mode', df_clean, "shirt_size")

(* C6 as claimed: the value substituted for the missing entries of city *)
(* and of shirt_size is, among the most frequent non-missing values,    *)
(* the one met first in row order of the de-duplicated table.            *)
C6_ModeTieFirstMet == [][C6StepFirstMet]_vars

(* C6 as amended: the value substituted is, among the most frequent     *)
(* non-missing values, the smallest in ascending string order.           *)
C6_ModeTieSmallest == [][C6StepSmallest]_vars

(* The script's table after imputation: Small and Medium both occurred  *)
(* five times, Small first; the three missing sizes became Medium.       *)
C6_Witness ==
   /\ pc = "drop_columns"
   /\ IsExample
   /\ size_mode = "Medium"
   /\ df[1].shirt_size = "Small"
   /\ df[3].shirt_size = NA /\ df_clean[3].shirt_size = "Medium"
   /\ Occurrences(df_clean, "shirt_size", "Small") = 5
   /\ Occurrences(df_clean, "shirt_size", "Medium") = 5 + 3

-----------------------------------------------------------------------
(* C7, C8: the figures of the script's summary *)

(* C7 as claimed: on the script's table the mean substituted for a      *)
(* missing age is 29.45 and the mean substituted for a missing          *)
(* purchase_amount is 1445.33, rounded to two decimals.                  *)
C7_ExampleMeans ==
   (IsExample /\ pc = "drop_columns") =>
      /\ Round2(age_mean) = R(2945, 100)
      /\ Round2(purchase_mean) = R(144533, 100)

(* C8 as claimed: on the script's table the purchase_amount limits are  *)
(* 348.23 and 2551.77 within 0.01 and every final purchase_amount lies  *)
(* between them; the upper age limit is 42.5, the age 150 of customer   *)
(* 110 ends as 42.5 and every final age is at most 42.5.                 *)
C8_ExampleLimits ==
   (IsExample /\ pc = "done") =>
      /\ Within(lower_limit, R(34823, 100), R(1, 100))
      /\ Within(upper_limit, R(255177, 100), R(1, 100))
      /\ \A i \in Rows(df_clean) :
            /\ RLe(R(34822, 100), df_clean[i].purchase_amount)
            /\ RLe(df_clean[i].purchase_amount, R(255178, 100))
      /\ upper_limit_age = R(85, 2)
      /\ df_clean[10].customer_id = 110 /\ df_clean[10].age = R(85, 2)
      /\ \A i \in Rows(df_clean) : RLe(df_clean[i].age, R(85, 2))

-----------------------------------------------------------------------
(* C9: the guarantees are kept to the end *)

AfterDuplicates == {"fill_age", "fill_city", "fill_purchase", "fill_size", "drop_columns",
                    "cap_purchase", "cap_age", "encode_city", "encode_size",
                    "encode_grade", "encode_category", "done"}

AfterFill == {"drop_columns", "cap_purchase", "cap_age", "encode_city", "encode_size",
              "encode_grade", "encode_category", "done"}

AfterDrop == {"cap_purchase", "cap_age", "encode_city", "encode_size",
              "encode_grade", "encode_category", "done"}

Pruned(t) == \A i \in Rows(t) : (DOMAIN t[i]) \cap {"country", "pan_card"} = {}

Ids(t) == Column(t, "customer_id")

DistinctIds(t) == \A i, j \in Rows(t) : t[i].customer_id = t[j].customer_id => i = j

C9Step ==
   /\ pc = "duplicates" => NoEqualRows(df_clean')
   /\ pc \in AfterDuplicates =>
         /\ Ids(df_clean') = Ids(df_clean)
         /\ DistinctIds(df_clean) => NoEqualRows(df_clean')
         /\ IsExample => DistinctIds(df_clean) /\ Len(df_clean') = 20
   /\ pc' \in AfterFill => NoMissing(df_clean')
   /\ pc' \in AfterDrop => Pruned(df_clean')

(* C9: from duplicate elimination on, every step keeps the rows and the *)
(* order of their customer_id values, and keeps the rows pairwise       *)
(* different when the customer_id values are pairwise different, as     *)
(* they are in the script's table, which keeps its 20 rows; from the    *)
(* end of imputation on no treated entry is missing; from column        *)
(* pruning on country and pan_card are absent; all this up to and       *)
(* including the last encoding step.                                     *)
C9_GuaranteesKept == [][C9Step]_vars

(* The script's run at completion, the encoded columns added *)
C9_Witness ==
   /\ pc = "done"
   /\ IsExample
   /\ Len(df_clean) = 20
   /\ "category_encoded" \in DOMAIN df_clean[1]
   /\ NoEqualRows(df_clean) /\ NoMissing(df_clean) /\ Pruned(df_clean)

-----------------------------------------------------------------------
(* C10: the order of the two capping steps *)

(* C10 as claimed: capping age before purchase_amount gives a table     *)
(* that differs from the one the script's order gives.                   *)
C10_CappingOrderMatters ==
   pc = "cap_purchase" =>
      Capper(Capper(df_clean, "age"), "purchase_amount")
         # Capper(Capper(df_clean, "purchase_amount"), "age")

(* C10 as amended: capping age before purchase_amount gives the same    *)
(* table as the script's order, purchase_amount before age.              *)
C10_CappingOrderIrrelevant ==
   pc = "cap_purchase" =>
      Capper(Capper(df_clean, "age"), "purchase_amount")
         = Capper(Capper(df_clean, "purchase_amount"), "age")

(* The script's table before the cappings: each capping changes it *)
C10_Witness ==
   /\ pc = "cap_purchase"
   /\ IsExample
   /\ Capper(df_clean, "age") # df_clean
   /\ Capper(df_clean, "purchase_amount") # df_clean

=======================================================================
